---------------------------- MODULE Spec2Model ----------------------------
(***************************************************************************)
(* heapcache: a capacity-bounded cache whose eviction order is given by a  *)
(* caller-supplied comparator.  The model follows the function-comparator  *)
(* Cache (src/unnamed/part_002) with its itemsHeap (src/heap.go, lines     *)
(* 1-43) and the container/heap algorithms of the Go standard library that *)
(* the cache calls (heap.Init, heap.Push, heap.Pop, heap.Remove, heap.Fix  *)
(* with their helpers up and down).                                        *)
(*                                                                         *)
(* Go pointers are addresses into wr, the sequence of allocated wrappers.  *)
(* Slice indices keep Go's zero base: slot i of the slice is Heap[i + 1].  *)
(* Address 0 is the nil pointer / the absent map entry.                    *)
(***************************************************************************)
EXTENDS Integers, Sequences, FiniteSets

(***************************************************************************)
(* Bounds of the model.                                                    *)
(***************************************************************************)
\* largest capacity a caller asks for
MaxCap == 3
\* priorities are 1..MaxPrio
MaxPrio == 3
\* longest variadic key list passed to Remove, All, Any
MaxKeyArgs == 2
\* width of the machine integer the capacity arithmetic is done in (Go int,
\* scaled down)
IntBits == 6

\* longest batch passed to HeapCache.AddMany
MaxBatch == 2
\* longest heap sequence of a HeapCache that the calls leave
MaxHeap == 3

\* number of concurrent callers
NumProcs == 2
\* number of calls the concurrent callers make in all
MaxCalls == 3
\* largest capacity the concurrent callers ask for
ConcCap == 2
\* number of concurrent callers of the methods that take the lock
NumLockers == 3

\* the keys of the callers, but for those that build a deep heap
KeySeq == <<"a", "b", "c">>
Keys == {KeySeq[n] : n \in 1..Len(KeySeq)}
\* all the keys: the domain of the map
KeyTypeSeq == KeySeq \o <<"d", "e">>
KeyType == {KeyTypeSeq[n] : n \in 1..Len(KeyTypeSeq)}
\* the cached values of the tests, cacheItem{Value, Priority}: one value of
\* each priority, and a second value of the lowest priority
Values == {[Value |-> "x", Priority |-> p] : p \in 1..MaxPrio}
              \cup {[Value |-> "y", Priority |-> 1]}

MaxInt == 2^(IntBits - 1) - 1
MinInt == -(2^(IntBits - 1))

\* Go's wrapping integer addition
GoAdd(a, b) == ((a + b - MinInt) % (2^IntBits)) + MinInt

\* Go's integer division truncates toward zero
GoDiv(a, b) == IF a >= 0 THEN a \div b ELSE -((-a) \div b)

\* testLess: the comparator the cache is built with
testLess(a, b) == a.Priority < b.Priority

VARIABLES capacity, Heap, items, wr, failed, op, arg, ret, gone, came,
          procs, mutex, calls

vars == <<capacity, Heap, items, wr, failed, op, arg, ret, gone, came,
          procs, mutex, calls>>

\* the caller's record of its last call, in the single-caller specification
callVars == <<op, arg, ret, gone, came>>

\* the callers and the lock, in the specification of concurrent callers
concVars == <<procs, mutex, calls>>

Procs == 1..NumProcs

(***************************************************************************)
(* The cache as one value: the operators below are the code's functions    *)
(* from cache value to cache value.  panic records a Go run-time panic     *)
(* (index out of range, nil dereference) raised on the way.                *)
(***************************************************************************)
Cache == [capacity |-> capacity, Heap |-> Heap, items |-> items, wr |-> wr,
          panic |-> failed]

Panic(c) == [c EXCEPT !.panic = TRUE]

HLen(c) == Len(c.Heap)

InRange(c, i) == i >= 0 /\ i < HLen(c)

\* the wrapper in slot i
At(c, i) == c.wr[c.Heap[i + 1]]

\* len(c.items)
lenItems(c) == Cardinality({k \in KeyType : c.items[k] # 0})

(***************************************************************************)
(* itemsHeap: src/heap.go                                                  *)
(***************************************************************************)
\* a variant of Less with the operands exchanged
LessSwapped(c, i, j) == testLess(At(c, j).value, At(c, i).value)

\* a variant of Less that orders entries of equal priority by their addresses
LessByAddress(c, i, j) ==
    \/ testLess(At(c, i).value, At(c, j).value)
    \/ /\ ~testLess(At(c, j).value, At(c, i).value)
       /\ c.Heap[i + 1] < c.Heap[j + 1]

Less(c, i, j) == testLess(At(c, i).value, At(c, j).value)

\* a variant of Swap that leaves the index fields as they are
SwapKeepsIndex(c, i, j) ==
    IF c.panic THEN c
    ELSE IF ~(InRange(c, i) /\ InRange(c, j)) THEN Panic(c)
    ELSE [c EXCEPT !.Heap = [c.Heap EXCEPT ![i + 1] = c.Heap[j + 1],
                                          ![j + 1] = c.Heap[i + 1]]]

Swap(c, i, j) ==
    IF c.panic THEN c
    ELSE IF ~(InRange(c, i) /\ InRange(c, j)) THEN Panic(c)
    ELSE LET a == c.Heap[i + 1]
             b == c.Heap[j + 1]
             H == [c.Heap EXCEPT ![i + 1] = b, ![j + 1] = a]
             W1 == [c.wr EXCEPT ![b].index = i]
             W2 == [W1 EXCEPT ![a].index = j]
         IN [c EXCEPT !.Heap = H, !.wr = W2]

\* Push(value): value is the address of a wrapper
Push(c, a) ==
    IF c.panic THEN c
    ELSE [c EXCEPT !.wr[a].index = Len(c.Heap), !.Heap = Append(c.Heap, a)]

\* Pop(): the cache and the address of the wrapper taken from the last slot
Pop(c) ==
    IF c.panic THEN [c |-> c, item |-> 0]
    ELSE IF HLen(c) = 0 THEN [c |-> Panic(c), item |-> 0]
    ELSE LET n == HLen(c)
             item == c.Heap[n]
         IN [c |-> [c EXCEPT !.wr[item].index = -1,
                             !.Heap = SubSeq(c.Heap, 1, n - 1)],
             item |-> item]

newHeap(c) == [c EXCEPT !.Heap = <<>>]

(***************************************************************************)
(* container/heap                                                          *)
(***************************************************************************)
RECURSIVE up(_, _)
up(c, j) ==
    LET i == GoDiv(j - 1, 2)
    IN IF c.panic \/ i = j THEN c
       ELSE IF ~(InRange(c, i) /\ InRange(c, j)) THEN Panic(c)
       ELSE IF ~Less(c, j, i) THEN c
       ELSE up(Swap(c, i, j), i)

\* the loop of down: the cache and the slot the entry ends in
RECURSIVE downLoop(_, _, _)
downLoop(c, i, n) ==
    LET j1 == 2 * i + 1
    IN IF c.panic \/ j1 >= n \/ j1 < 0 THEN [c |-> c, i |-> i]
       ELSE LET j2 == j1 + 1
                j == IF j2 < n /\ Less(c, j2, j1) THEN j2 ELSE j1
            IN IF ~Less(c, j, i) THEN [c |-> c, i |-> i]
               ELSE downLoop(Swap(c, i, j), j, n)

down(c, i0, n) ==
    LET r == downLoop(c, i0, n)
    IN [c |-> r.c, moved |-> r.i > i0]

heapFix(c, i) ==
    LET d == down(c, i, HLen(c))
    IN IF d.moved THEN d.c ELSE up(d.c, i)

heapPush(c, a) ==
    LET c1 == Push(c, a)
    IN up(c1, HLen(c1) - 1)

heapPop(c) ==
    LET n == HLen(c) - 1
        c1 == Swap(c, 0, n)
        c2 == down(c1, 0, n).c
    IN Pop(c2)

heapRemove(c, i) ==
    LET n == HLen(c) - 1
    IN IF n # i
       THEN LET c1 == Swap(c, i, n)
                d == down(c1, i, n)
                c2 == IF d.moved THEN d.c ELSE up(d.c, i)
            IN Pop(c2)
       ELSE Pop(c)

RECURSIVE initLoop(_, _, _)
initLoop(c, i, n) ==
    IF i < 0 THEN c ELSE initLoop(down(c, i, n).c, i - 1, n)

heapInit(c) ==
    LET n == HLen(c)
    IN initLoop(c, GoDiv(n, 2) - 1, n)

(***************************************************************************)
(* Cache: src/unnamed/part_002                                             *)
(***************************************************************************)
NoItems == [k \in KeyType |-> 0]

New(cap) ==
    [capacity |-> IF cap < 0 THEN 0 ELSE cap,
     Heap |-> <<>>, items |-> NoItems, wr |-> <<>>, panic |-> FALSE]

\* a variant of evict that takes the entries out of the heap and leaves
\* the map alone
RECURSIVE evictHeapOnly(_, _)
evictHeapOnly(c, count) ==
    IF count > 0 /\ HLen(c) > 0 /\ ~c.panic
    THEN LET r == evictHeapOnly(heapPop(c).c, count - 1)
         IN [c |-> r.c, evicted |-> r.evicted + 1]
    ELSE [c |-> c, evicted |-> 0]

\* a variant of evict whose loop does not test the heap's length
RECURSIVE evictNoLenCheck(_, _)
evictNoLenCheck(c, count) ==
    IF count > 0 /\ ~c.panic
    THEN LET p == heapPop(c)
             c1 == IF p.c.panic THEN p.c
                   ELSE [p.c EXCEPT !.items[p.c.wr[p.item].key] = 0]
             r == evictNoLenCheck(c1, count - 1)
         IN [c |-> r.c, evicted |-> r.evicted + 1]
    ELSE [c |-> c, evicted |-> 0]

\* evict(count): the cache and the number of entries evicted
RECURSIVE evict(_, _)
evict(c, count) ==
    IF count > 0 /\ HLen(c) > 0 /\ ~c.panic
    THEN LET p == heapPop(c)
             c1 == IF p.c.panic THEN p.c
                   ELSE [p.c EXCEPT !.items[p.c.wr[p.item].key] = 0]
             r == evict(c1, count - 1)
         IN [c |-> r.c, evicted |-> r.evicted + 1]
    ELSE [c |-> c, evicted |-> 0]

\* the insertion of a new key: the tail of Add
insert(c, key, value) ==
    LET c1 == IF lenItems(c) >= c.capacity THEN evict(c, 1).c ELSE c
        w == Len(c1.wr) + 1
        c2 == [c1 EXCEPT !.wr = Append(c1.wr,
                   [index |-> 0, key |-> key, value |-> value])]
        c3 == heapPush(c2, w)
    IN IF c3.panic THEN c3 ELSE [c3 EXCEPT !.items[key] = w]

\* a variant of Add that takes a key that exists out of the heap and pushes
\* it again with the new value
AddReinserts(c, key, value) ==
    IF c.capacity = 0 THEN c
    ELSE IF c.items[key] # 0
    THEN LET item == c.items[key]
             c1 == [c EXCEPT !.wr[item].value = value]
             c2 == heapRemove(c1, c1.wr[item].index).c
         IN heapPush(c2, item)
    ELSE insert(c, key, value)

\* a variant of Add that keeps the old value of a key that exists
AddKeepsValue(c, key, value) ==
    IF c.capacity = 0 THEN c
    ELSE IF c.items[key] # 0 THEN heapFix(c, c.wr[c.items[key]].index)
    ELSE insert(c, key, value)

\* a variant of Add that does not call heap.Fix for a key that exists
AddNoFix(c, key, value) ==
    IF c.capacity = 0 THEN c
    ELSE IF c.items[key] # 0
    THEN [c EXCEPT !.wr[c.items[key]].value = value]
    ELSE insert(c, key, value)

\* a variant of Add without the test for capacity 0
AddNoZeroCheck(c, key, value) ==
    IF c.items[key] # 0
    THEN LET item == c.items[key]
             c1 == [c EXCEPT !.wr[item].value = value]
         IN heapFix(c1, c1.wr[item].index)
    ELSE insert(c, key, value)

Add(c, key, value) ==
    IF c.capacity = 0 THEN c
    ELSE IF c.items[key] # 0
    THEN LET item == c.items[key]
             c1 == [c EXCEPT !.wr[item].value = value]
         IN heapFix(c1, c1.wr[item].index)
    ELSE insert(c, key, value)

\* Get(key): the value and the found flag; nil is "nil"
Get(c, key) ==
    IF c.items[key] # 0 THEN <<c.wr[c.items[key]].value, TRUE>>
    ELSE <<"nil", FALSE>>

\* a variant of All that returns at the first key found
AllStopsAtFound(c, keys) == \E n \in 1..Len(keys) : c.items[keys[n]] # 0

All(c, keys) == \A n \in 1..Len(keys) : c.items[keys[n]] # 0

Any(c, keys) == \E n \in 1..Len(keys) : c.items[keys[n]] # 0

\* a variant of Remove that puts the last entry in the place of the removed
\* one and does not sift it
RECURSIVE RemoveNoSift(_, _)
RemoveNoSift(c, keys) ==
    IF keys = <<>> \/ c.panic THEN [c |-> c, removed |-> 0]
    ELSE LET key == Head(keys)
             item == c.items[key]
         IN IF item # 0
            THEN LET c1 == [c EXCEPT !.items[key] = 0]
                     c2 == Pop(Swap(c1, c1.wr[item].index, HLen(c1) - 1)).c
                     r == RemoveNoSift(c2, Tail(keys))
                 IN [c |-> r.c, removed |-> r.removed + 1]
            ELSE RemoveNoSift(c, Tail(keys))

\* a variant of Remove that counts every listed key
RECURSIVE RemoveCountsListed(_, _)
RemoveCountsListed(c, keys) ==
    IF keys = <<>> \/ c.panic THEN [c |-> c, removed |-> 0]
    ELSE LET key == Head(keys)
             item == c.items[key]
             c2 == IF item # 0
                   THEN heapRemove([c EXCEPT !.items[key] = 0],
                                   c.wr[item].index).c
                   ELSE c
             r == RemoveCountsListed(c2, Tail(keys))
         IN [c |-> r.c, removed |-> r.removed + 1]

\* Remove(keys...): the cache and the number of entries removed
RECURSIVE Remove(_, _)
Remove(c, keys) ==
    IF keys = <<>> \/ c.panic THEN [c |-> c, removed |-> 0]
    ELSE LET key == Head(keys)
             item == c.items[key]
         IN IF item # 0
            THEN LET c1 == [c EXCEPT !.items[key] = 0]
                     c2 == heapRemove(c1, c1.wr[item].index).c
                     r == Remove(c2, Tail(keys))
                 IN [c |-> r.c, removed |-> r.removed + 1]
            ELSE Remove(c, Tail(keys))

\* Len()
LenOf(c) == lenItems(c)

\* Capacity()
Capacity(c) == c.capacity

\* a variant of Purge that leaves the heap as it is
PurgeMapOnly(c) == [c EXCEPT !.items = NoItems]

Purge(c) == [newHeap(c) EXCEPT !.items = NoItems]

Evict(c, count) == evict(c, count)

\* a variant of setCapacity that never evicts
setCapacityNoEvict(c, cap) ==
    IF cap = c.capacity THEN c
    ELSE [c EXCEPT !.capacity = IF cap < 0 THEN 0 ELSE cap]

\* a variant of setCapacity that evicts one entry at most
setCapacityEvictOne(c, cap) ==
    IF cap = c.capacity THEN c
    ELSE LET cap1 == IF cap < 0 THEN 0 ELSE cap
             redundant == lenItems(c) - cap1
             c1 == IF redundant > 0 THEN evict(c, 1).c ELSE c
         IN [c1 EXCEPT !.capacity = cap1]

\* a variant of setCapacity that keeps a negative capacity
setCapacityNoClamp(c, cap) ==
    IF cap = c.capacity THEN c
    ELSE LET redundant == lenItems(c) - cap
             c1 == IF redundant > 0 THEN evict(c, redundant).c ELSE c
         IN [c1 EXCEPT !.capacity = cap]

setCapacity(c, cap) ==
    IF cap = c.capacity THEN c
    ELSE LET cap1 == IF cap < 0 THEN 0 ELSE cap
             redundant == lenItems(c) - cap1
             c1 == IF redundant > 0 THEN evict(c, redundant).c ELSE c
         IN [c1 EXCEPT !.capacity = cap1]

ChangeCapacity(c, delta) == setCapacity(c, GoAdd(c.capacity, delta))

SetCapacity(c, cap) == setCapacity(c, cap)

\* a variant of Fix that sifts the entry of slot 0 only
FixRootOnly(c) == down(c, 0, HLen(c)).c

Fix(c) == heapInit(c)

(***************************************************************************)
(* HeapCache: src/cache.go, lines 1-177.  Its itemsHeap (lines 14-53) is   *)
(* the itemsHeap above with Less fixed to Priority <, and a HeapCacheItem  *)
(* {index, Key, Value, Priority} is the wrapper                            *)
(* [index, key, value |-> [Value, Priority]].  The capacity is a uint.     *)
(***************************************************************************)
NewHeapCache(cap) ==
    [capacity |-> cap, Heap |-> <<>>, items |-> NoItems, wr |-> <<>>,
     panic |-> FALSE]

\* evict(count), lines 171-177: the loop does not look at the heap's length
RECURSIVE HeapCacheEvict(_, _)
HeapCacheEvict(c, count) ==
    IF count > 0 /\ ~c.panic
    THEN LET p == heapPop(c)
             c1 == IF p.c.panic THEN p.c
                   ELSE [p.c EXCEPT !.items[p.c.wr[p.item].key] = 0]
         IN HeapCacheEvict(c1, count - 1)
    ELSE c

\* the update of a key that exists, lines 73-80 and 102-107
HeapCacheUpdate(c, key, value, priority) ==
    LET item == c.items[key]
        c1 == [c EXCEPT !.wr[item].value.Value = value]
    IN IF c1.wr[item].value.Priority # priority
       THEN heapFix([c1 EXCEPT !.wr[item].value.Priority = priority],
                    c1.wr[item].index)
       ELSE c1

\* a new item at a fresh address: the cache and the address
HeapCacheNewItem(c, key, value, priority) ==
    [c |-> [c EXCEPT !.wr = Append(c.wr,
                [index |-> 0, key |-> key,
                 value |-> [Value |-> value, Priority |-> priority]])],
     item |-> Len(c.wr) + 1]

HeapCacheAdd(c, key, value, priority) ==
    IF c.items[key] # 0 THEN HeapCacheUpdate(c, key, value, priority)
    ELSE LET c1 == IF lenItems(c) >= c.capacity THEN HeapCacheEvict(c, 1)
                   ELSE c
             n == HeapCacheNewItem(c1, key, value, priority)
             c2 == heapPush(n.c, n.item)
         IN IF c2.panic THEN c2 ELSE [c2 EXCEPT !.items[key] = n.item]

\* AddMany, lines 101-111: the keys that exist are updated, the others are
\* collected in toAdd
RECURSIVE AddManyUpdates(_, _)
AddManyUpdates(c, batch) ==
    IF batch = <<>> \/ c.panic THEN [c |-> c, toAdd |-> <<>>]
    ELSE LET it == Head(batch)
         IN IF c.items[it.Key] # 0
            THEN AddManyUpdates(
                     HeapCacheUpdate(c, it.Key, it.Value, it.Priority),
                     Tail(batch))
            ELSE LET r == AddManyUpdates(c, Tail(batch))
                 IN [c |-> r.c, toAdd |-> <<it>> \o r.toAdd]

\* AddMany, lines 121-124: the items of toAdd are appended to the heap and
\* stored in the map
RECURSIVE AddManyPushes(_, _)
AddManyPushes(c, toAdd) ==
    IF toAdd = <<>> \/ c.panic THEN c
    ELSE LET it == Head(toAdd)
             n == HeapCacheNewItem(c, it.Key, it.Value, it.Priority)
             c1 == Push(n.c, n.item)
         IN AddManyPushes([c1 EXCEPT !.items[it.Key] = n.item], Tail(toAdd))

HeapCacheAddMany(c, batch) ==
    LET u == AddManyUpdates(c, batch)
        lenAdd == Len(u.toAdd)
        c1 == IF lenItems(u.c) + lenAdd > u.c.capacity
              THEN HeapCacheEvict(u.c, lenItems(u.c) + lenAdd - u.c.capacity)
              ELSE u.c
    IN IF lenAdd > 0 THEN heapInit(AddManyPushes(c1, u.toAdd)) ELSE c1

HeapCacheGet(c, key) ==
    IF c.items[key] # 0 THEN <<c.wr[c.items[key]].value.Value, TRUE>>
    ELSE <<"nil", FALSE>>

HeapCacheContains(c, key) == c.items[key] # 0

\* Remove(key): the cache and whether the key was there
HeapCacheRemove(c, key) ==
    LET item == c.items[key]
    IN IF item # 0
       THEN [c |-> heapRemove([c EXCEPT !.items[key] = 0], c.wr[item].index).c,
             removed |-> TRUE]
       ELSE [c |-> c, removed |-> FALSE]

HeapCacheLen(c) == lenItems(c)

(***************************************************************************)
(* Addresses are opaque: a state is kept up to renaming of addresses, with *)
(* the wrappers numbered in the order heap slots, then map entries in key  *)
(* order, then the given extra pointers.  Unreferenced wrappers are        *)
(* garbage and dropped.                                                    *)
(***************************************************************************)
RECURSIVE firstRefs(_)
firstRefs(s) ==
    IF s = <<>> THEN <<>>
    ELSE LET f == firstRefs(SubSeq(s, 1, Len(s) - 1))
             a == s[Len(s)]
         IN IF a = 0 \/ \E n \in 1..Len(f) : f[n] = a THEN f ELSE Append(f, a)

refsOf(c, extra) ==
    firstRefs(c.Heap
              \o [n \in 1..Len(KeyTypeSeq) |-> c.items[KeyTypeSeq[n]]]
              \o extra)

\* the new address of a under the numbering refs
renamed(refs, a) ==
    IF a = 0 THEN 0 ELSE CHOOSE n \in 1..Len(refs) : refs[n] = a

compact(c, extra) ==
    LET refs == refsOf(c, extra)
    IN [c EXCEPT !.Heap = [n \in 1..Len(c.Heap) |-> renamed(refs, c.Heap[n])],
                 !.items = [k \in KeyType |-> renamed(refs, c.items[k])],
                 !.wr = [n \in 1..Len(refs) |-> c.wr[refs[n]]]]

(***************************************************************************)
(* A caller: where it is in its call (pc), the call and its arguments, its *)
(* local pointers item and w, and what the call returned (res).  pre,      *)
(* clean and obs are history: the cache when the caller's Add began,       *)
(* whether no other caller has written since, and, for a read, the writes  *)
(* that were under way when it read.                                       *)
(***************************************************************************)
NoValue == [Value |-> "-", Priority |-> 0]

NoCache == New(0)

NoCall ==
    [pc |-> "idle", op |-> "none", key |-> "-", value |-> NoValue,
     keys |-> <<>>, n |-> 0, item |-> 0, w |-> 0, res |-> <<>>,
     pre |-> NoCache, clean |-> TRUE, obs |-> {}]

\* sync.RWMutex: the caller holding the write lock (0: none) and the callers
\* holding the read lock
Unlocked == [writer |-> 0, readers |-> {}]

(***************************************************************************)
(* One caller: every public call runs to completion.                       *)
(***************************************************************************)
\* the keys a call took out of the map
Gone(c, d) == {k \in KeyType : c.items[k] # 0 /\ d.items[k] = 0}

\* the keys a call put into the map
Came(c, d) == {k \in KeyType : c.items[k] = 0 /\ d.items[k] # 0}

\* The state a call leaves behind.  op, arg, ret, gone and came are the
\* caller's record of the call: its name, the tuple of the arguments it
\* notes (the caller of a Cache notes the integer arguments only), the tuple
\* of what it returned (empty when it returns nothing), how many keys it
\* took out of the map and how many it put in.
Returns(name, a, c, r) ==
    LET d == compact(c, <<>>)
    IN /\ capacity' = d.capacity
       /\ Heap' = d.Heap
       /\ items' = d.items
       /\ wr' = d.wr
       /\ failed' = d.panic
       /\ op' = name
       /\ arg' = a
       /\ ret' = r
       /\ gone' = Cardinality(Gone(Cache, d))
       /\ came' = Cardinality(Came(Cache, d))
       /\ UNCHANGED concVars

CapArgs == -1..MaxCap
Counts == -1..(MaxCap + 1)
Deltas == (-(MaxCap + 1)..MaxCap) \cup {MaxInt, MinInt}
KeyLists == UNION {[1..n -> Keys] : n \in 0..MaxKeyArgs}

Init ==
    \E cap \in CapArgs :
        LET c == New(cap)
        IN /\ capacity = c.capacity
           /\ Heap = c.Heap
           /\ items = c.items
           /\ wr = c.wr
           /\ failed = c.panic
           /\ op = "New"
           /\ arg = <<cap>>
           /\ ret = <<>>
           /\ gone = 0
           /\ came = 0
           /\ procs = [p \in Procs |-> NoCall]
           /\ mutex = Unlocked
           /\ calls = 0

CallAdd ==
    \E key \in Keys, value \in Values :
        /\ ~failed
        /\ Returns("Add", <<>>, Add(Cache, key, value), <<>>)

CallRemove ==
    \E r \in {Remove(Cache, keys) : keys \in KeyLists} :
        /\ ~failed
        /\ Returns("Remove", <<>>, r.c, <<r.removed>>)

CallPurge ==
    /\ ~failed
    /\ Returns("Purge", <<>>, Purge(Cache), <<>>)

CallEvict ==
    \E count \in Counts :
        /\ ~failed
        /\ LET r == Evict(Cache, count)
           IN Returns("Evict", <<count>>, r.c, <<r.evicted>>)

CallChangeCapacity ==
    \E delta \in Deltas :
        /\ ~failed
        /\ LET c == ChangeCapacity(Cache, delta)
           IN /\ c.capacity <= MaxCap
              /\ Returns("ChangeCapacity", <<delta>>, c, <<>>)

CallSetCapacity ==
    \E cap \in CapArgs :
        /\ ~failed
        /\ Returns("SetCapacity", <<cap>>, SetCapacity(Cache, cap), <<>>)

CallFix ==
    /\ ~failed
    /\ Returns("Fix", <<>>, Fix(Cache), <<>>)

\* The state a call that only reads leaves behind: the cache as the body
\* leaves it (the bodies of Get, Len, All and Any assign to no field of the
\* cache) and the caller's record of the call.
Read(name, r) ==
    /\ op' = name
    /\ arg' = <<>>
    /\ ret' = r
    /\ gone' = 0
    /\ came' = 0
    /\ UNCHANGED <<capacity, Heap, items, wr, failed, concVars>>

CallGet ==
    \E key \in Keys :
        ~failed /\ Read("Get", Get(Cache, key))

CallLen ==
    ~failed /\ Read("Len", <<LenOf(Cache)>>)

CallAll ==
    \E r \in {All(Cache, keys) : keys \in KeyLists} :
        ~failed /\ Read("All", <<r>>)

CallAny ==
    \E r \in {Any(Cache, keys) : keys \in KeyLists} :
        ~failed /\ Read("Any", <<r>>)

Next ==
    \/ CallAdd
    \/ CallGet
    \/ CallLen
    \/ CallAll
    \/ CallAny
    \/ CallRemove
    \/ CallPurge
    \/ CallEvict
    \/ CallChangeCapacity
    \/ CallSetCapacity
    \/ CallFix

Spec == Init /\ [][Next]_vars

(***************************************************************************)
(* One caller that builds a deep heap: a cache for all the keys, each key  *)
(* with a priority of its own or the mirrored one, so that the heap gets   *)
(* three levels, entries move up and down in it and priorities tie.        *)
(***************************************************************************)
\* the place of a key among all the keys
Place(key) == CHOOSE n \in 1..Len(KeyTypeSeq) : KeyTypeSeq[n] = key

\* the values the caller stores under a key
DeepValues(key) ==
    {[Value |-> "x", Priority |-> p] :
        p \in {Place(key), Len(KeyTypeSeq) + 1 - Place(key)}}

\* the capacities the caller asks for
DeepCaps == {Len(KeyTypeSeq) - 2, Len(KeyTypeSeq)}

InitDeep ==
    LET c == New(Len(KeyTypeSeq))
    IN /\ capacity = c.capacity
       /\ Heap = c.Heap
       /\ items = c.items
       /\ wr = c.wr
       /\ failed = c.panic
       /\ op = "New"
       /\ arg = <<Len(KeyTypeSeq)>>
       /\ ret = <<>>
       /\ gone = 0
       /\ came = 0
       /\ procs = [p \in Procs |-> NoCall]
       /\ mutex = Unlocked
       /\ calls = 0

DeepAdd ==
    \E key \in KeyType :
        \E value \in DeepValues(key) :
            /\ ~failed
            /\ Returns("Add", <<>>, Add(Cache, key, value), <<>>)

DeepRemove ==
    \E key \in KeyType :
        /\ ~failed
        /\ LET r == Remove(Cache, <<key>>)
           IN Returns("Remove", <<>>, r.c, <<r.removed>>)

DeepEvict ==
    \E count \in {1, 2} :
        /\ ~failed
        /\ LET r == Evict(Cache, count)
           IN Returns("Evict", <<count>>, r.c, <<r.evicted>>)

DeepSetCapacity ==
    \E cap \in DeepCaps :
        /\ ~failed
        /\ Returns("SetCapacity", <<cap>>, SetCapacity(Cache, cap), <<>>)

DeepChangeCapacity ==
    \E delta \in {-2, 2} :
        /\ ~failed
        /\ capacity + delta \in DeepCaps
        /\ Returns("ChangeCapacity", <<delta>>,
                   ChangeCapacity(Cache, delta), <<>>)

DeepPurge ==
    /\ ~failed
    /\ Returns("Purge", <<>>, Purge(Cache), <<>>)

NextDeep ==
    \/ DeepAdd
    \/ DeepRemove
    \/ DeepEvict
    \/ DeepSetCapacity
    \/ DeepChangeCapacity
    \/ DeepPurge

SpecDeep == InitDeep /\ [][NextDeep]_vars

(***************************************************************************)
(* One caller that fills a cache with the keys, one after the other, and   *)
(* then stores new values of unchanged priority under them, evicting an    *)
(* entry now and then.                                                     *)
(***************************************************************************)
\* the other value of the same priority
Twin(value) ==
    [value EXCEPT !.Value = IF value.Value = "x" THEN "y" ELSE "x"]

InitReAdd == InitDeep

\* Add of the next key, while the caller has done nothing but add keys
ReAddFill ==
    /\ ~failed
    /\ op = "New" \/ (op = "Add" /\ came = 1)
    /\ LenOf(Cache) < Len(KeyTypeSeq)
    /\ \E value \in DeepValues(KeyTypeSeq[LenOf(Cache) + 1]) :
           Returns("Add", <<>>,
                   Add(Cache, KeyTypeSeq[LenOf(Cache) + 1], value), <<>>)

\* Add of a key that is stored, with the other value of its priority
ReAdd ==
    \E key \in KeyType :
        /\ ~failed
        /\ items[key] # 0
        /\ Returns("Add", <<>>, Add(Cache, key, Twin(wr[items[key]].value)),
                   <<>>)

ReAddEvict ==
    /\ ~failed
    /\ LET r == Evict(Cache, 1)
       IN Returns("Evict", <<1>>, r.c, <<r.evicted>>)

NextReAdd ==
    \/ ReAddFill
    \/ ReAdd
    \/ ReAddEvict

SpecReAdd == InitReAdd /\ [][NextReAdd]_vars

(***************************************************************************)
(* One caller that fills a cache with the keys, one after the other, each  *)
(* with the priority of its place, then changes priorities of the stored   *)
(* values in place (the values are pointers, as the *cacheItem of the      *)
(* tests), calls Fix and evicts.                                           *)
(***************************************************************************)
InitFix == InitDeep

FixFill ==
    /\ ~failed
    /\ op = "New" \/ (op = "Add" /\ came = 1)
    /\ LenOf(Cache) < Len(KeyTypeSeq)
    /\ LET n == LenOf(Cache) + 1
       IN Returns("Add", <<>>,
                  Add(Cache, KeyTypeSeq[n], [Value |-> "x", Priority |-> n]),
                  <<>>)

\* the caller assigns to the Priority of a value it has stored: no method of
\* the cache runs
Mutate ==
    \E key \in KeyType :
        \E value \in DeepValues(key) :
            /\ ~failed
            /\ items[key] # 0
            /\ wr[items[key]].value.Priority # value.Priority
            /\ wr' = [wr EXCEPT ![items[key]].value.Priority = value.Priority]
            /\ op' = "Mutate"
            /\ arg' = <<>>
            /\ ret' = <<>>
            /\ gone' = 0
            /\ came' = 0
            /\ UNCHANGED <<capacity, Heap, items, failed, concVars>>

\* Fix(), called after priorities have changed
FixCall ==
    /\ ~failed
    /\ op = "Mutate"
    /\ Returns("Fix", <<>>, Fix(Cache), <<>>)

FixEvict ==
    /\ ~failed
    /\ LET r == Evict(Cache, 1)
       IN Returns("Evict", <<1>>, r.c, <<r.evicted>>)

NextFix ==
    \/ FixFill
    \/ Mutate
    \/ FixCall
    \/ FixEvict

SpecFix == InitFix /\ [][NextFix]_vars

(***************************************************************************)
(* One caller of a HeapCache: every public call runs to completion.        *)
(***************************************************************************)
\* the keys a caller of a HeapCache uses
HeapCacheKeys == {KeySeq[1], KeySeq[2]}

\* the items a caller passes: HeapCacheItem{Key, Value, Priority}, of the
\* priorities below the highest
Items ==
    {[Key |-> k, Value |-> v.Value, Priority |-> v.Priority] :
        k \in HeapCacheKeys, v \in {v \in Values : v.Priority < MaxPrio}}

Batches == UNION {[1..n -> Items] : n \in 0..MaxBatch}

InitHeapCache ==
    \E cap \in 0..MaxCap :
        LET c == NewHeapCache(cap)
        IN /\ capacity = c.capacity
           /\ Heap = c.Heap
           /\ items = c.items
           /\ wr = c.wr
           /\ failed = c.panic
           /\ op = "NewHeapCache"
           /\ arg = <<cap>>
           /\ ret = <<>>
           /\ gone = 0
           /\ came = 0
           /\ procs = [p \in Procs |-> NoCall]
           /\ mutex = Unlocked
           /\ calls = 0

CallHeapCacheAdd ==
    \E it \in Items :
        /\ ~failed
        /\ LET c == HeapCacheAdd(Cache, it.Key, it.Value, it.Priority)
           IN HLen(c) <= MaxHeap /\ Returns("Add", <<it>>, c, <<>>)

CallHeapCacheAddMany ==
    \E batch \in Batches :
        /\ ~failed
        /\ LET c == HeapCacheAddMany(Cache, batch)
           IN HLen(c) <= MaxHeap /\ Returns("AddMany", batch, c, <<>>)

CallHeapCacheGet ==
    \E key \in HeapCacheKeys :
        /\ ~failed
        /\ Returns("Get", <<key>>, Cache, HeapCacheGet(Cache, key))

CallHeapCacheContains ==
    \E key \in HeapCacheKeys :
        /\ ~failed
        /\ Returns("Contains", <<key>>, Cache,
                   <<HeapCacheContains(Cache, key)>>)

CallHeapCacheRemove ==
    \E key \in HeapCacheKeys :
        /\ ~failed
        /\ LET r == HeapCacheRemove(Cache, key)
           IN Returns("Remove", <<key>>, r.c, <<r.removed>>)

CallHeapCacheLen ==
    /\ ~failed
    /\ Returns("Len", <<>>, Cache, <<HeapCacheLen(Cache)>>)

NextHeapCache ==
    \/ CallHeapCacheAdd
    \/ CallHeapCacheAddMany
    \/ CallHeapCacheGet
    \/ CallHeapCacheContains
    \/ CallHeapCacheRemove
    \/ CallHeapCacheLen

SpecHeapCache == InitHeapCache /\ [][NextHeapCache]_vars

(***************************************************************************)
(* Concurrent callers.  A call that takes the lock is three steps: the     *)
(* call, which enters Lock or RLock; the acquisition; and the body with    *)
(* the deferred unlock.  Add takes no lock (part_002, lines 56-75), so its *)
(* statements are steps of their own and interleave with everything.       *)
(***************************************************************************)
ConcKeys == {KeySeq[1], KeySeq[2]}
ConcValues == {[Value |-> "x", Priority |-> p] : p \in 1..2}
ConcKeyLists == {<<KeySeq[1]>>, <<KeySeq[1], KeySeq[2]>>}

Writers == {"Remove", "Purge", "Evict", "ChangeCapacity", "SetCapacity", "Fix"}
Readers == {"Get", "All", "Any", "Len"}

\* the calls a caller chooses from
ConcCalls ==
    {[NoCall EXCEPT !.op = "Add", !.key = k, !.value = v] :
        k \in ConcKeys, v \in ConcValues}
    \cup {[NoCall EXCEPT !.op = "Remove", !.keys = ks] : ks \in ConcKeyLists}
    \cup {[NoCall EXCEPT !.op = "Purge"], [NoCall EXCEPT !.op = "Fix"],
          [NoCall EXCEPT !.op = "Len"]}
    \cup {[NoCall EXCEPT !.op = "Evict", !.n = 1]}
    \cup {[NoCall EXCEPT !.op = "ChangeCapacity", !.n = d] : d \in {-1, 1}}
    \cup {[NoCall EXCEPT !.op = "SetCapacity", !.n = cap] : cap \in 0..ConcCap}
    \cup {[NoCall EXCEPT !.op = "Get", !.key = k] : k \in ConcKeys}
    \cup {[NoCall EXCEPT !.op = o, !.keys = ks] :
            o \in {"All", "Any"}, ks \in ConcKeyLists}

\* the pointers the callers hold
locals(ps) ==
    [n \in 1..(2 * Len(ps)) |->
        IF n % 2 = 1 THEN ps[(n + 1) \div 2].item ELSE ps[n \div 2].w]

\* the callers whose Add is under way
AddPcs == {"add_set", "add_fix", "add_evict", "add_del", "add_push", "add_put"}

\* a step of caller p leaves the cache c and the callers ps; wrote tells
\* whether the step wrote to the cache
Step(p, c, ps, wrote) ==
    LET refs == refsOf(c, locals(ps))
        d == compact(c, locals(ps))
    IN /\ capacity' = d.capacity
       /\ Heap' = d.Heap
       /\ items' = d.items
       /\ wr' = d.wr
       /\ failed' = d.panic
       /\ procs' = [q \in DOMAIN ps |->
             [ps[q] EXCEPT !.item = renamed(refs, @),
                           !.w = renamed(refs, @),
                           !.clean = IF wrote /\ q # p /\ ps[q].pc \in AddPcs
                                    THEN FALSE ELSE @]]
       /\ UNCHANGED callVars

\* caller p returns res
Return(p, res) ==
    [procs EXCEPT ![p].pc = "idle", ![p].res = res, ![p].item = 0, ![p].w = 0,
                  ![p].pre = NoCache, ![p].clean = TRUE]

InitConc ==
    \E cap \in 0..ConcCap :
        LET c == New(cap)
        IN /\ capacity = c.capacity
           /\ Heap = c.Heap
           /\ items = c.items
           /\ wr = c.wr
           /\ failed = c.panic
           /\ op = "New"
           /\ arg = <<cap>>
           /\ ret = <<>>
           /\ gone = 0
           /\ came = 0
           /\ procs = [p \in Procs |-> NoCall]
           /\ mutex = Unlocked
           /\ calls = 0

\* caller p makes a call: a locking call enters Lock or RLock, Add begins
Call(p) ==
    \E call \in ConcCalls :
        /\ ~failed
        /\ procs[p].pc = "idle"
        /\ calls < MaxCalls
        /\ calls' = calls + 1
        /\ procs' = [procs EXCEPT ![p] =
              [call EXCEPT !.pc = IF call.op \in Writers THEN "w_lock"
                                  ELSE IF call.op \in Readers THEN "r_lock"
                                  ELSE "add"]]
        /\ UNCHANGED <<capacity, Heap, items, wr, failed, callVars, mutex>>

\* Add, lines 57-67: the tests that choose what Add does
AddBegin(p) ==
    /\ ~failed
    /\ procs[p].pc = "add"
    /\ LET me == [procs[p] EXCEPT !.pre = Cache, !.clean = TRUE]
           next == IF capacity = 0 THEN "idle"
                   ELSE IF items[me.key] # 0 THEN "add_set"
                   ELSE IF lenItems(Cache) >= capacity THEN "add_evict"
                   ELSE "add_push"
       IN Step(p, Cache,
               IF next = "idle" THEN Return(p, <<>>)
               ELSE [procs EXCEPT ![p] =
                        [me EXCEPT !.pc = next, !.item = items[me.key]]],
               FALSE)
    /\ UNCHANGED <<mutex, calls>>

\* Add, line 62: c.items[key].value = value
AddSet(p) ==
    /\ ~failed
    /\ procs[p].pc = "add_set"
    /\ LET key == procs[p].key
           c == IF items[key] = 0 THEN Panic(Cache)
                ELSE [Cache EXCEPT !.wr[items[key]].value = procs[p].value]
       IN Step(p, c, [procs EXCEPT ![p].pc = "add_fix"], TRUE)
    /\ UNCHANGED <<mutex, calls>>

\* Add, lines 63-64: heap.Fix(c.heap, item.index); return
AddFix(p) ==
    /\ ~failed
    /\ procs[p].pc = "add_fix"
    /\ Step(p, heapFix(Cache, wr[procs[p].item].index), Return(p, <<>>), TRUE)
    /\ UNCHANGED <<mutex, calls>>

\* evict(1) called by Add, lines 157-158: the loop test and heap.Pop
AddEvict(p) ==
    /\ ~failed
    /\ procs[p].pc = "add_evict"
    /\ IF Len(Heap) > 0
       THEN LET r == heapPop(Cache)
            IN Step(p, r.c,
                    [procs EXCEPT ![p].pc = "add_del", ![p].item = r.item],
                    TRUE)
       ELSE Step(p, Cache, [procs EXCEPT ![p].pc = "add_push"], FALSE)
    /\ UNCHANGED <<mutex, calls>>

\* evict(1) called by Add, line 159: delete(c.items, item.key)
AddDelete(p) ==
    /\ ~failed
    /\ procs[p].pc = "add_del"
    /\ Step(p, [Cache EXCEPT !.items[wr[procs[p].item].key] = 0],
            [procs EXCEPT ![p].pc = "add_push", ![p].item = 0], TRUE)
    /\ UNCHANGED <<mutex, calls>>

\* Add, lines 71-73: the new wrapper and heap.Push
AddPush(p) ==
    /\ ~failed
    /\ procs[p].pc = "add_push"
    /\ LET w == Len(wr) + 1
           c == [Cache EXCEPT !.wr = Append(wr,
                    [index |-> 0, key |-> procs[p].key,
                     value |-> procs[p].value])]
       IN Step(p, heapPush(c, w),
               [procs EXCEPT ![p].pc = "add_put", ![p].w = w], TRUE)
    /\ UNCHANGED <<mutex, calls>>

\* Add, line 74: c.items[w.key] = &w; return
AddPut(p) ==
    /\ ~failed
    /\ procs[p].pc = "add_put"
    /\ Step(p, [Cache EXCEPT !.items[procs[p].key] = procs[p].w],
            Return(p, <<>>), TRUE)
    /\ UNCHANGED <<mutex, calls>>

\* c.mutex.Lock() takes the writer's side of the lock: no other writer has
\* it.  From here on RLock blocks; Lock returns when the readers inside have
\* left.
WLock(p) ==
    /\ ~failed
    /\ procs[p].pc = "w_lock"
    /\ mutex.writer = 0
    /\ mutex' = [mutex EXCEPT !.writer = p]
    /\ procs' = [procs EXCEPT ![p].pc = "w_body"]
    /\ UNCHANGED <<capacity, Heap, items, wr, failed, callVars, calls>>

\* the body of a call that holds the write lock: the cache it leaves and
\* what it returns
WriteCall(c, call) ==
    CASE call.op = "Remove" ->
            LET r == Remove(c, call.keys) IN [c |-> r.c, res |-> <<r.removed>>]
      [] call.op = "Purge" -> [c |-> Purge(c), res |-> <<>>]
      [] call.op = "Evict" ->
            LET r == Evict(c, call.n) IN [c |-> r.c, res |-> <<r.evicted>>]
      [] call.op = "ChangeCapacity" ->
            [c |-> ChangeCapacity(c, call.n), res |-> <<>>]
      [] call.op = "SetCapacity" ->
            [c |-> SetCapacity(c, call.n), res |-> <<>>]
      [] call.op = "Fix" -> [c |-> Fix(c), res |-> <<>>]

\* c.mutex.Lock() returns, no reader being inside; the body of the writer
\* and its deferred c.mutex.Unlock()
WBody(p) ==
    /\ ~failed
    /\ procs[p].pc = "w_body"
    /\ mutex.readers = {}
    /\ LET r == WriteCall(Cache, procs[p])
       IN Step(p, r.c, Return(p, r.res), TRUE)
    /\ mutex' = Unlocked
    /\ UNCHANGED calls

\* a variant of RLock that takes the lock as Lock does
RLockExclusive(p) ==
    /\ ~failed
    /\ procs[p].pc = "r_lock"
    /\ mutex = Unlocked
    /\ mutex' = [mutex EXCEPT !.readers = @ \cup {p}]
    /\ procs' = [procs EXCEPT ![p].pc = "r_body"]
    /\ UNCHANGED <<capacity, Heap, items, wr, failed, callVars, calls>>

\* c.mutex.RLock() returns: no writer holds the lock or waits in Lock for
\* the readers to leave
RLock(p) ==
    /\ ~failed
    /\ procs[p].pc = "r_lock"
    /\ mutex.writer = 0
    /\ mutex' = [mutex EXCEPT !.readers = @ \cup {p}]
    /\ procs' = [procs EXCEPT ![p].pc = "r_body"]
    /\ UNCHANGED <<capacity, Heap, items, wr, failed, callVars, calls>>

\* what a read returns on the cache c
ReadCall(c, call) ==
    CASE call.op = "Get" -> Get(c, call.key)
      [] call.op = "All" -> <<All(c, call.keys)>>
      [] call.op = "Any" -> <<Any(c, call.keys)>>
      [] call.op = "Len" -> <<LenOf(c)>>

\* the writes a read overlaps: each Add under way that no other caller has
\* written into, as the cache it began on and its arguments
Overlapped(p) ==
    {[pre |-> procs[q].pre, key |-> procs[q].key, value |-> procs[q].value] :
        q \in {q \in DOMAIN procs \ {p} :
                  procs[q].pc \in AddPcs /\ procs[q].clean}}

\* the body of a reader and its deferred c.mutex.RUnlock()
RBody(p) ==
    /\ ~failed
    /\ procs[p].pc = "r_body"
    /\ procs' = [Return(p, ReadCall(Cache, procs[p])) EXCEPT
                    ![p].obs = Overlapped(p)]
    /\ mutex' = [mutex EXCEPT !.readers = @ \ {p}]
    /\ UNCHANGED <<capacity, Heap, items, wr, failed, callVars, calls>>

NextConc ==
    \E p \in Procs :
        \/ Call(p)
        \/ AddBegin(p)
        \/ AddSet(p)
        \/ AddFix(p)
        \/ AddEvict(p)
        \/ AddDelete(p)
        \/ AddPush(p)
        \/ AddPut(p)
        \/ WLock(p)
        \/ WBody(p)
        \/ RLock(p)
        \/ RBody(p)

SpecConc == InitConc /\ [][NextConc]_vars

\* caller p can take a step of its call: it is inside Add, or in Lock or
\* RLock with the lock free for it, or inside the lock
Ready(p) ==
    /\ ~failed
    /\ \/ procs[p].pc \in {"add"} \cup AddPcs
       \/ procs[p].pc \in {"w_lock", "r_lock"} /\ mutex.writer = 0
       \/ procs[p].pc = "w_body" /\ mutex.readers = {}
       \/ procs[p].pc = "r_body"

(***************************************************************************)
(* Concurrent callers of the methods that take the lock: the reads Get,    *)
(* All, Any and Len and the writer Remove, on a cache that its constructor *)
(* has put one entry in before sharing it.                                 *)
(***************************************************************************)
Lockers == 1..NumLockers

LockCalls ==
    {[NoCall EXCEPT !.op = "Len"],
     [NoCall EXCEPT !.op = "Get", !.key = KeySeq[1]],
     [NoCall EXCEPT !.op = "All", !.keys = <<KeySeq[1]>>],
     [NoCall EXCEPT !.op = "Any", !.keys = <<KeySeq[1], KeySeq[2]>>],
     [NoCall EXCEPT !.op = "Remove", !.keys = <<KeySeq[1]>>]}

\* the cache New(ConcCap) after Add(key, value)
Shared(key, value) ==
    [capacity |-> ConcCap, Heap |-> <<1>>,
     items |-> [NoItems EXCEPT ![key] = 1],
     wr |-> <<[index |-> 0, key |-> key, value |-> value]>>,
     panic |-> FALSE]

InitLock ==
    \E value \in ConcValues :
        LET c == Shared(KeySeq[1], value)
        IN /\ capacity = c.capacity
           /\ Heap = c.Heap
           /\ items = c.items
           /\ wr = c.wr
           /\ failed = c.panic
           /\ op = "Add"
           /\ arg = <<>>
           /\ ret = <<>>
           /\ gone = 0
           /\ came = 1
           /\ procs = [p \in Lockers |-> NoCall]
           /\ mutex = Unlocked
           /\ calls = 0

\* caller p calls a method that takes the lock and enters Lock or RLock
LockCall(p) ==
    \E call \in LockCalls :
        /\ ~failed
        /\ procs[p].pc = "idle"
        /\ calls < MaxCalls
        /\ calls' = calls + 1
        /\ procs' = [procs EXCEPT ![p] =
              [call EXCEPT !.pc = IF call.op \in Writers THEN "w_lock"
                                  ELSE "r_lock"]]
        /\ UNCHANGED <<capacity, Heap, items, wr, failed, callVars, mutex>>

NextLock ==
    \E p \in Lockers :
        \/ LockCall(p)
        \/ WLock(p)
        \/ WBody(p)
        \/ RLock(p)
        \/ RBody(p)

SpecLock == InitLock /\ [][NextLock]_vars

(***************************************************************************)
(* Vocabulary of the properties.                                           *)
(***************************************************************************)
\* the keys of the map
ItemKeys(c) == {k \in KeyType : c.items[k] # 0}

\* the keys of the entries in the heap sequence
HeapKeys(c) == {c.wr[c.Heap[n]].key : n \in 1..Len(c.Heap)}

\* the value the map holds for a key of the map
ValueOf(c, k) == c.wr[c.items[k]].value

Min(a, b) == IF a < b THEN a ELSE b

\* the keys of the map whose priority no other key of the map is below
Lowest(c) ==
    {k \in ItemKeys(c) :
        \A j \in ItemKeys(c) : ~testLess(ValueOf(c, j), ValueOf(c, k))}

DistinctPriorities(c) ==
    \A j, k \in ItemKeys(c) :
        j # k => ValueOf(c, j).Priority # ValueOf(c, k).Priority

\* every key of d holds the value it holds in c
SameValues(c, d) ==
    \A k \in ItemKeys(d) : k \in ItemKeys(c) /\ ValueOf(d, k) = ValueOf(c, k)

(***************************************************************************)
(* Properties of the single-caller specification Spec.                     *)
(***************************************************************************)

\* C1: whenever a public call (New, Add, Remove, Evict, Purge, SetCapacity,
\* ChangeCapacity, Fix) of a single caller has returned, Len() <= Capacity().
C1_LenWithinCapacity == LenOf(Cache) <= Capacity(Cache)

\* C1 witness: SetCapacity has lowered the capacity of a cache below its
\* length and evicted down to it.
C1_Witness ==
    op = "SetCapacity" /\ gone >= 1 /\ capacity >= 1 /\ LenOf(Cache) = capacity

\* C2: after every public mutating call the key set of the map equals the key
\* set of the heap sequence, no key occurs twice in the heap, and the map
\* size equals the heap length.
C2_MapMatchesHeap ==
    /\ ItemKeys(Cache) = HeapKeys(Cache)
    /\ \A m, n \in 1..Len(Heap) : m # n => wr[Heap[m]].key # wr[Heap[n]].key
    /\ LenOf(Cache) = Len(Heap)

\* C2 witness: Remove has taken entries out and left others in.
C2_Witness == op = "Remove" /\ ret = <<2>> /\ Len(Heap) = 1

\* C3: with pairwise distinct priorities, Add of a new key into a cache whose
\* length equals its capacity (capacity >= 1) evicts exactly one entry, the
\* one with the lowest priority among those present before, keeps every
\* other key, and the new key is present afterwards.
C3_AddEvictsLowest ==
    \A key \in Keys, value \in Values :
        ( /\ capacity >= 1
          /\ key \notin ItemKeys(Cache)
          /\ LenOf(Cache) = capacity
          /\ DistinctPriorities(Cache) )
        => LET d == Add(Cache, key, value)
           IN /\ Cardinality(Gone(Cache, d)) = 1
              /\ Gone(Cache, d) = Lowest(Cache)
              /\ ItemKeys(d) = (ItemKeys(Cache) \ Lowest(Cache)) \cup {key}
              /\ ~d.panic

\* C3 witness: Add has put a new key into a full cache of capacity 2 and
\* taken one key out.
C3_Witness ==
    /\ op = "Add" /\ came = 1 /\ gone = 1
    /\ capacity = 2 /\ LenOf(Cache) = 2
    /\ DistinctPriorities(Cache)

\* C7: on a cache with capacity >= 1, Add(k, v) immediately followed by
\* Get(k) returns (v, true), for a new and for an existing k, with and
\* without an eviction; Get of a key that is not in the heap returns
\* (nil, false).
C7_AddThenGet ==
    /\ capacity >= 1 =>
         \A key \in Keys, value \in Values :
             Get(Add(Cache, key, value), key) = <<value, TRUE>>
    /\ \A key \in Keys \ HeapKeys(Cache) : Get(Cache, key) = <<"nil", FALSE>>

\* C7 witness: Add has stored a new key in a full cache of capacity 1, so
\* the key that was live is no longer.
C7_Witness ==
    /\ op = "Add" /\ came = 1 /\ gone = 1 /\ capacity = 1
    /\ \E k \in Keys : Get(Cache, k)[2]
    /\ \E k \in Keys : ~Get(Cache, k)[2]

\* C8: Add of a key that is already live evicts nothing, also at capacity:
\* the key set and Len() are unchanged, the stored value is replaced, and
\* the entry is ordered by its new priority (if that is strictly the lowest,
\* the key is the next one evicted).
C8_UpdateEvictsNothing ==
    \A key \in ItemKeys(Cache), value \in Values :
        LET d == Add(Cache, key, value)
        IN /\ ItemKeys(d) = ItemKeys(Cache)
           /\ LenOf(d) = LenOf(Cache)
           /\ HLen(d) = HLen(Cache)
           /\ Get(d, key) = <<value, TRUE>>
           /\ \A k \in ItemKeys(Cache) \ {key} :
                  ValueOf(d, k) = ValueOf(Cache, k)
           /\ (\A k \in ItemKeys(Cache) \ {key} :
                   testLess(value, ValueOf(Cache, k)))
              => Gone(d, Evict(d, 1).c) = {key}
           /\ ~d.panic

\* C8 witness: Add of a live key has returned on a full cache of capacity
\* at least 2, with nothing taken out and nothing put in.
C8_Witness ==
    /\ op = "Add" /\ came = 0 /\ gone = 0
    /\ capacity >= 2 /\ LenOf(Cache) = capacity

\* C9: while the capacity is 0 every Add is a no-op: Len() = 0 and All(k) is
\* false for every key k, before and after any Add, and no call fails.
C9_ZeroCapacityInert ==
    capacity = 0 =>
        /\ LenOf(Cache) = 0
        /\ ~failed
        /\ \A k \in Keys : ~All(Cache, <<k>>)
        /\ \A key \in Keys, value \in Values :
               LET d == Add(Cache, key, value)
               IN /\ d = Cache
                  /\ LenOf(d) = 0
                  /\ ~All(d, <<key>>)
                  /\ ~d.panic

\* C9 witness: Add has returned on a cache of capacity 0.
C9_Witness == capacity = 0 /\ op = "Add" /\ came = 0

\* C10: for every count >= 0, Evict(count) returns min(count, Len before),
\* lowers Len() by that number, takes out entries of the lowest priorities
\* (no remaining entry has a priority below an evicted one), and does not
\* fail on an empty cache, on count 0 or on count above Len.
C10_EvictCount ==
    \A count \in {n \in Counts : n >= 0} :
        LET r == Evict(Cache, count)
            n == Min(count, LenOf(Cache))
        IN /\ r.evicted = n
           /\ LenOf(r.c) = LenOf(Cache) - n
           /\ HLen(r.c) = HLen(Cache) - n
           /\ ItemKeys(r.c) \subseteq ItemKeys(Cache)
           /\ SameValues(Cache, r.c)
           /\ \A kept \in ItemKeys(r.c), out \in Gone(Cache, r.c) :
                  ~testLess(ValueOf(Cache, kept), ValueOf(Cache, out))
           /\ ~r.c.panic

\* C10 witness: Evict(2) on a cache of three entries has returned 2 and left
\* one entry.
C10_Witness ==
    op = "Evict" /\ ret = <<2>> /\ gone = 2 /\ LenOf(Cache) = 1

\* C11: SetCapacity(n) with 0 <= n < Len() evicts exactly Len() - n entries,
\* of the lowest priorities (no entry kept has a priority below an evicted
\* one), and sets Capacity() to n; SetCapacity(n) with n >= Len() evicts
\* nothing, leaves every key and value unchanged and sets Capacity() to n.
C11_SetCapacityEvicts ==
    \A n \in 0..(MaxCap + 1) :
        LET d == SetCapacity(Cache, n)
        IN /\ Capacity(d) = n
           /\ ~d.panic
           /\ SameValues(Cache, d)
           /\ LenOf(d) = HLen(d)
           /\ IF n < LenOf(Cache)
              THEN /\ Cardinality(Gone(Cache, d)) = LenOf(Cache) - n
                   /\ LenOf(d) = n
                   /\ \A kept \in ItemKeys(d), out \in Gone(Cache, d) :
                          ~testLess(ValueOf(Cache, kept), ValueOf(Cache, out))
              ELSE /\ ItemKeys(d) = ItemKeys(Cache)
                   /\ d.Heap = Cache.Heap
                   /\ d.wr = Cache.wr

\* C11 witness: SetCapacity(1) has evicted two of three entries.
C11_Witness ==
    /\ op = "SetCapacity" /\ arg = <<1>> /\ gone = 2
    /\ capacity = 1 /\ LenOf(Cache) = 1

\* the negative capacities a caller asks for
NegCaps == {n \in CapArgs : n < 0} \cup {MinInt}

Listed(keys) == {keys[n] : n \in 1..Len(keys)}

\* C13: Remove(keys...) returns the number of distinct listed keys that were
\* live, makes exactly those keys absent and leaves every other key present
\* with its value; Remove(k) called a second time in a row returns 0 and
\* changes nothing.
C13_RemoveCounts ==
    /\ \A keys \in KeyLists :
           LET r == Remove(Cache, keys)
               live == Listed(keys) \cap ItemKeys(Cache)
           IN /\ r.removed = Cardinality(live)
              /\ ItemKeys(r.c) = ItemKeys(Cache) \ live
              /\ HeapKeys(r.c) = ItemKeys(r.c)
              /\ HLen(r.c) = LenOf(r.c)
              /\ SameValues(Cache, r.c)
              /\ Capacity(r.c) = capacity
              /\ ~r.c.panic
    /\ \A k \in Keys :
           LET first == Remove(Cache, <<k>>)
               second == Remove(first.c, <<k>>)
           IN /\ first.removed = (IF k \in ItemKeys(Cache) THEN 1 ELSE 0)
              /\ second.removed = 0
              /\ second.c = first.c

\* C13 witness: Remove has taken one key out, returned 1 and left other
\* entries in.
C13_Witness ==
    op = "Remove" /\ ret = <<1>> /\ gone = 1 /\ LenOf(Cache) >= 1

\* Add of the keys of a list, in order, with one value
RECURSIVE AddEach(_, _, _)
AddEach(c, keys, value) ==
    IF keys = <<>> THEN c
    ELSE AddEach(Add(c, Head(keys), value), Tail(keys), value)

\* the lists of distinct keys
DistinctKeyLists ==
    {ks \in UNION {[1..n -> Keys] : n \in 0..Len(KeySeq)} :
        Cardinality(Listed(ks)) = Len(ks)}

\* C14: Purge() leaves Len() = 0 with an empty map and an empty heap and the
\* capacity as it was, and the cache stays usable: in the state a Purge has
\* left, Add calls store entries up to that capacity, and the heap orders
\* them by the comparator.
C14_PurgeEmpties ==
    LET d == Purge(Cache)
    IN /\ LenOf(d) = 0
       /\ d.items = NoItems
       /\ d.Heap = <<>>
       /\ Capacity(d) = capacity
       /\ ~d.panic
       /\ op = "Purge" =>
              /\ Cache = [d EXCEPT !.wr = <<>>]
              /\ \A ks \in DistinctKeyLists, value \in Values :
                     LET e == AddEach(Cache, ks, value)
                     IN /\ LenOf(e) = Min(Len(ks), capacity)
                        /\ HLen(e) = LenOf(e)
                        /\ Len(ks) <= capacity => ItemKeys(e) = Listed(ks)
                        /\ ~e.panic
              /\ \A j, k \in Keys, v, w \in Values :
                     (j # k /\ capacity >= 2 /\ testLess(v, w)) =>
                         /\ Gone(Add(Add(Cache, j, v), k, w),
                                 Evict(Add(Add(Cache, j, v), k, w), 1).c) = {j}
                         /\ Gone(Add(Add(Cache, k, w), j, v),
                                 Evict(Add(Add(Cache, k, w), j, v), 1).c) = {j}

\* C14 witness: Purge has emptied a cache of capacity at least 2 that held
\* at least 2 entries.
C14_Witness ==
    /\ op = "Purge" /\ gone >= 2 /\ capacity >= 2
    /\ LenOf(Cache) = 0 /\ Heap = <<>>

\* C18: All(keys...) is true exactly when every listed key is live (true for
\* the empty list), Any(keys...) is true exactly when some listed key is
\* live (false for the empty list), and a call of All or Any leaves the map,
\* the heap and the capacity as they were.
C18_AllAnyMembership ==
    /\ [](\A keys \in KeyLists :
             /\ All(Cache, keys) = (Listed(keys) \subseteq ItemKeys(Cache))
             /\ Any(Cache, keys) = (Listed(keys) \cap ItemKeys(Cache) # {}))
    /\ [](All(Cache, <<>>) /\ ~Any(Cache, <<>>))
    /\ [][op' \in {"All", "Any"} =>
             /\ UNCHANGED <<capacity, Heap, items, wr, failed>>
             /\ op' = "All" =>
                    ret' \in {<<All(Cache, keys)>> : keys \in KeyLists}
             /\ op' = "Any" =>
                    ret' \in {<<Any(Cache, keys)>> : keys \in KeyLists}]_vars

\* C18 witness: Any has returned true, and All false, on a cache that holds
\* some keys and not others.
C18_Witness ==
    /\ LenOf(Cache) \in 1..(Len(KeySeq) - 1)
    /\ \/ op = "Any" /\ ret = <<TRUE>>
       \/ op = "All" /\ ret = <<FALSE>>

(***************************************************************************)
(* Properties of the deep heap (SpecDeep).                                 *)
(***************************************************************************)
\* the slot of the parent of slot i
Parent(i) == GoDiv(i - 1, 2)

\* C20: after every public mutating call (Add, Remove, Evict, SetCapacity,
\* ChangeCapacity, Purge) the heap sequence is a binary heap under the
\* comparator: for every slot i > 0 the entry in slot (i-1)/2 does not sort
\* after the entry in slot i, and so the entry in slot 0 is a minimum.
C20_HeapOrdered ==
    /\ \A i \in 1..(HLen(Cache) - 1) : ~Less(Cache, i, Parent(i))
    /\ \A i \in 0..(HLen(Cache) - 1) : ~Less(Cache, i, 0)
    /\ ~failed

\* C20 witness: Remove has taken an entry out of a heap of three levels and
\* left one of three levels, in which priorities tie.
C20_Witness ==
    /\ op = "Remove" /\ ret = <<1>>
    /\ HLen(Cache) = Len(KeyTypeSeq) - 1
    /\ ~DistinctPriorities(Cache)

\* the keys in the order in which evictions take them out of c
RECURSIVE EvictOrder(_)
EvictOrder(c) ==
    IF HLen(c) = 0 \/ c.panic THEN <<>>
    ELSE <<At(c, 0).key>> \o EvictOrder(evict(c, 1).c)

\* the addresses in the heap sequence of c
InHeap(c) == {c.Heap[n] : n \in 1..Len(c.Heap)}

\* every entry that a call from c to d took out of the heap has index -1
Invalidated(c, d) == \A a \in InHeap(c) \ InHeap(d) : d.wr[a].index = -1

\* C21: in every state reached when a public call has returned, the entry in
\* slot i of the heap sequence has index i and is the entry the map holds for
\* its key; an entry that eviction (by Add, Evict, SetCapacity or
\* ChangeCapacity) or Remove takes out of the heap has index -1.
C21_IndexIsPosition ==
    /\ ~failed
    /\ \A i \in 0..(HLen(Cache) - 1) :
           /\ At(Cache, i).index = i
           /\ items[At(Cache, i).key] = Heap[i + 1]
    /\ \A key \in KeyType :
           /\ Invalidated(Cache, Remove(Cache, <<key>>).c)
           /\ \A value \in DeepValues(key) :
                  Invalidated(Cache, Add(Cache, key, value))
    /\ \A count \in {1, 2} : Invalidated(Cache, Evict(Cache, count).c)
    /\ \A cap \in DeepCaps : Invalidated(Cache, SetCapacity(Cache, cap))
    /\ \A delta \in {-2, 2} :
           Invalidated(Cache, ChangeCapacity(Cache, delta))

\* C21 witness: Evict has taken two entries out of a full heap of three
\* levels, and the entries left have moved.
C21_Witness ==
    /\ op = "Evict" /\ arg = <<2>> /\ gone = 2
    /\ HLen(Cache) = Len(KeyTypeSeq) - 2
    /\ InHeap(Evict(Cache, 1).c) # InHeap(Cache)

\* The cache c with its wrappers at other addresses: the wrapper at address
\* a is at address f[a].  What a second cache differs in from the first,
\* after the same calls, is where the allocator has put its wrappers.
Moved(c, f) ==
    [c EXCEPT !.Heap = [n \in 1..Len(c.Heap) |-> f[c.Heap[n]]],
              !.items = [k \in KeyType |->
                            IF c.items[k] = 0 THEN 0 ELSE f[c.items[k]]],
              !.wr = [a \in 1..Len(c.wr) |->
                         c.wr[CHOOSE b \in 1..Len(c.wr) : f[b] = a]]]

\* the addresses turned round, and shifted by k
Placements(n) ==
    {[a \in 1..n |-> n + 1 - a]}
        \cup {[a \in 1..n |-> ((a + k - 1) % n) + 1] : k \in 1..(n - 1)}

\* what a caller can tell of a cache: the capacity, the keys of the map with
\* their values, and the keys in the order of the heap sequence
Observed(c) ==
    [capacity |-> c.capacity,
     panic |-> c.panic,
     values |-> [k \in KeyType |->
                    IF c.items[k] = 0 THEN NoValue ELSE ValueOf(c, k)],
     heap |-> [n \in 1..HLen(c) |-> At(c, n - 1).key],
     order |-> EvictOrder(c)]

C22_GrowthNeverEvicts ==
    \A delta \in 0..MaxInt :
        LET d == ChangeCapacity(Cache, delta)
        IN d.capacity >= capacity /\ Gone(Cache, d) = {}

(***************************************************************************)
(* Properties of the updates of unchanged priority (SpecReAdd).            *)
(***************************************************************************)
\* the heap sequence and the map of d are those of c, slot by slot
SameHeap(c, d) ==
    /\ d.Heap = c.Heap /\ d.items = c.items
    /\ \A i \in 0..(HLen(c) - 1) :
           At(d, i).key = At(c, i).key /\ At(d, i).index = i

\* C23: Add of a stored key with a new value of unchanged priority leaves
\* the heap sequence as it was: no entry changes its slot, and later
\* evictions take the entries out in the order in which they would have
\* without the update.
C23_ReAddKeepsHeap ==
    /\ [](\A key \in ItemKeys(Cache) :
             LET d == Add(Cache, key, Twin(ValueOf(Cache, key)))
             IN /\ ~d.panic
                /\ SameHeap(Cache, d)
                /\ ValueOf(d, key) = Twin(ValueOf(Cache, key))
                /\ \A k \in ItemKeys(Cache) \ {key} :
                       ValueOf(d, k) = ValueOf(Cache, k)
                /\ EvictOrder(d) = EvictOrder(Cache))
    /\ [][op' = "Add" /\ came' = 0 =>
             Heap' = Heap /\ items' = items /\ capacity' = capacity]_vars

\* C23 witness: Add has stored a new value of unchanged priority under a key
\* below the root of a full heap of three levels, in which priorities tie.
C23_Witness ==
    /\ op = "Add" /\ came = 0 /\ gone = 0
    /\ HLen(Cache) = Len(KeyTypeSeq)
    /\ ~DistinctPriorities(Cache)
    /\ At(Cache, 0).value.Value = "x"
    /\ \E i \in 3..(HLen(Cache) - 1) : At(Cache, i).value.Value = "y"

(***************************************************************************)
(* Properties of Fix after priorities have changed in place (SpecFix).     *)
(***************************************************************************)
\* no entry of c sorts before its parent
Ordered(c) == \A i \in 1..(HLen(c) - 1) : ~Less(c, i, Parent(i))

\* C24: after the caller has changed priorities of stored values in place,
\* so that the heap order may be broken, Fix() makes the whole sequence a
\* binary heap again and keeps the key set, the values, Len() and the
\* index of every entry equal to its slot, so that the next eviction takes
\* out an entry of lowest priority.
C24_FixRestoresHeap ==
    /\ op = "Fix" => Ordered(Cache)
    /\ LET d == Fix(Cache)
           e == Evict(d, 1)
       IN /\ ~d.panic
          /\ Ordered(d)
          /\ d.items = items /\ d.capacity = capacity
          /\ LenOf(d) = LenOf(Cache)
          /\ InHeap(d) = InHeap(Cache) /\ HLen(d) = HLen(Cache)
          /\ \A k \in ItemKeys(Cache) : ValueOf(d, k) = ValueOf(Cache, k)
          /\ \A i \in 0..(HLen(d) - 1) :
                 At(d, i).index = i /\ d.items[At(d, i).key] = d.Heap[i + 1]
          /\ HLen(d) > 0 =>
                 /\ e.evicted = 1
                 /\ Gone(d, e.c) \subseteq Lowest(d)
                 /\ Cardinality(Gone(d, e.c)) = 1

\* C24 witness: Fix has run on a full heap of three levels after the last
\* key got the lowest priority and the first the highest, and has brought
\* the last key to slot 0.
C24_Witness ==
    /\ op = "Fix"
    /\ HLen(Cache) = Len(KeyTypeSeq)
    /\ At(Cache, 0).key = KeyTypeSeq[Len(KeyTypeSeq)]
    /\ ValueOf(Cache, KeyTypeSeq[1]).Priority = Len(KeyTypeSeq)

(***************************************************************************)
(* Properties of the batched HeapCache.AddMany (SpecHeapCache).            *)
(***************************************************************************)

\* C15: every AddMany call completes, also with more new keys than the
\* capacity and on a cache of capacity 0, and leaves no more live entries
\* than the capacity.
C15_AddManyWithinCapacity ==
    op = "AddMany" => ~failed /\ LenOf(Cache) <= capacity

\* the keys of a batch
BatchKeys(batch) == {batch[n].Key : n \in 1..Len(batch)}

\* the batch consists of distinct keys that the cache c does not hold
NewDistinct(c, batch) ==
    /\ Cardinality(BatchKeys(batch)) = Len(batch)
    /\ BatchKeys(batch) \cap ItemKeys(c) = {}

\* the value a candidate key has: the batch's for a key of the batch, the
\* cache's otherwise
Candidate(c, batch, k) ==
    IF k \in BatchKeys(batch)
    THEN LET it == batch[CHOOSE n \in 1..Len(batch) : batch[n].Key = k]
         IN [Value |-> it.Value, Priority |-> it.Priority]
    ELSE ValueOf(c, k)

\* C16: an AddMany call with a batch of k new distinct keys that makes
\* len + k exceed the capacity evicts exactly len + k - capacity entries,
\* the lowest-priority ones of the existing entries together with the batch,
\* and leaves the length equal to the capacity.
C16_AddManyEvictsLowest ==
    [][(op' = "AddMany" /\ NewDistinct(Cache, arg')
              /\ LenOf(Cache) + Len(arg') > capacity) =>
          LET all == ItemKeys(Cache) \cup BatchKeys(arg')
              kept == {k \in Keys : items'[k] # 0}
          IN /\ ~failed'
             /\ Cardinality(kept) = capacity
             /\ kept \subseteq all
             /\ Cardinality(all \ kept) = LenOf(Cache) + Len(arg') - capacity
             /\ \A k \in kept, out \in all \ kept :
                    ~testLess(Candidate(Cache, arg', k),
                              Candidate(Cache, arg', out))]_vars

\* C17: after an AddMany call whose batch names the same new key more than
\* once, the heap holds exactly one entry for that key and the map size
\* equals the heap length.
C17_AddManyOneEntryPerKey ==
    [][(op' = "AddMany" /\ ~failed') =>
          \A m, n \in 1..Len(arg') :
              (m # n /\ arg'[m].Key = arg'[n].Key
                    /\ items[arg'[m].Key] = 0) =>
                  /\ Cardinality({i \in 1..Len(Heap') :
                         wr'[Heap'[i]].key = arg'[m].Key}) = 1
                  /\ Cardinality({k \in Keys : items'[k] # 0}) = Len(Heap')]_vars

(***************************************************************************)
(* Termination of the calls of concurrent callers (SpecConc).              *)
(***************************************************************************)
\* caller p is inside a call
Calling(p) == procs[p].pc # "idle"

\* C26: no call takes the lock while its caller holds it, the evict loop
\* terminates and every lock taken is released on return, so that under
\* fair scheduling every call of every caller returns in the end.  Each step
\* of a call moves it on towards its return, so a call returns unless it
\* gets stuck: the lock is held by callers inside the lock only, and as
\* long as a caller is inside a call some caller can take a step.
C26_EveryCallReturns ==
    /\ \A p \in Procs :
           /\ mutex.writer = p => procs[p].pc = "w_body"
           /\ p \in mutex.readers => procs[p].pc = "r_body"
    /\ (\E p \in Procs : Calling(p)) => \E q \in Procs : Ready(q)

(***************************************************************************)
(* Readers and writers under the lock (SpecLock).                          *)
(***************************************************************************)
\* the callers waiting in RLock
WaitingReaders == {p \in DOMAIN procs : procs[p].pc = "r_lock"}

\* the callers inside the critical section of a read
ReadersInside == {p \in DOMAIN procs : procs[p].pc = "r_body"}

\* a writer holds the exclusive lock: Lock has returned to it
WriterHolds == mutex.writer # 0 /\ mutex.readers = {}

\* C19 as stated: a reader inside holds the read lock only, and a reader
\* waiting in RLock is blocked only while a writer holds the exclusive lock.
C19_BlockedOnlyByHolder ==
    /\ \A p \in ReadersInside : p \in mutex.readers /\ mutex.writer # p
    /\ \A p \in WaitingReaders : ~ENABLED RLock(p) => WriterHolds

\* C19 amended: a reader inside holds the read lock only; a reader waiting
\* in RLock can enter whenever no writer holds the lock or waits in Lock,
\* however many readers are inside, and is blocked exactly while a writer
\* holds the lock or waits in Lock for the readers inside to leave.
C19_ReadersShare ==
    /\ \A p \in ReadersInside : p \in mutex.readers /\ mutex.writer # p
    /\ \A p \in WaitingReaders : ENABLED RLock(p) <=> mutex.writer = 0

\* C19 witness: two readers are inside at once and a third caller waits in
\* RLock with no writer about.
C19_Witness ==
    /\ Cardinality(ReadersInside) >= 2
    /\ WaitingReaders # {}
    /\ mutex.writer = 0

(***************************************************************************)
(* Concurrent callers (SpecConc).                                          *)
(***************************************************************************)
\* the callers inside the statements of an operation that write to the map,
\* the heap or the capacity
Mutating == {p \in Procs : procs[p].pc \in AddPcs \cup {"w_body"}}

\* the callers executing the internal evict
Evicting == {p \in Procs : procs[p].pc \in {"add_evict", "add_del"}}

\* C4: every operation that can change the map, the heap or the capacity
\* holds the write lock for its whole duration: a caller inside the mutating
\* section holds the write lock, no two callers are inside at once, and
\* evict runs only in a caller that holds the write lock.
C4_WritersHoldLock ==
    /\ \A p \in Mutating : mutex.writer = p
    /\ Cardinality(Mutating) <= 1
    /\ \A p \in Evicting : mutex.writer = p

\* all calls have returned
Quiescent == ~failed /\ \A p \in Procs : procs[p].pc = "idle"

\* C5: once all the calls of the concurrent callers have returned,
\* Len() <= Capacity() and the map and the heap hold the same keys, in the
\* same number.
C5_QuiescentConsistent ==
    Quiescent =>
        /\ LenOf(Cache) <= Capacity(Cache)
        /\ ItemKeys(Cache) = HeapKeys(Cache)
        /\ Cardinality(ItemKeys(Cache)) = Len(Heap)

\* two results of the same read are the same: the found flag, and the value
\* when found
SameResult(r, s) ==
    /\ Len(r) = Len(s)
    /\ r[Len(r)] = s[Len(s)]
    /\ (Len(r) = 2 /\ r[2]) => r[1] = s[1]

\* C6: a read that ran while a write was under way returned what it returns
\* on the cache before that write or on the cache after it.
C6_ReadsSeeNoTornWrite ==
    \A p \in Procs :
        (procs[p].pc = "idle" /\ procs[p].op \in Readers) =>
            \A o \in procs[p].obs :
                \/ SameResult(procs[p].res, ReadCall(o.pre, procs[p]))
                \/ SameResult(procs[p].res,
                              ReadCall(Add(o.pre, o.key, o.value), procs[p]))

=============================================================================
